---- MODULE Spec2Model ----
(***************************************************************************)
(* Prism2: the NI-845x driver wrapper (hardware/ni845x.py) and the         *)
(* hardware facade built on it (hardware/handler.py).                      *)
(*                                                                         *)
(* The native driver is the environment.  Its handle table, the devices    *)
(* it enumerates and the status each primitive returns are chosen          *)
(* nondeterministically; the Python code is translated statement by        *)
(* statement into operators that take the program state                    *)
(*     st = [drv, objs, calls]                                             *)
(* (driver handle table, Python objects, driver calls made so far by the   *)
(* running operation) and give back [st, exc, ret].                        *)
(***************************************************************************)
EXTENDS Integers, Sequences, FiniteSets, TLC

\* ------------------------------------------------------------------ bounds
\* Size of each of the driver's handle pools (device, SPI configuration,
\* I2C configuration, enumeration): an open primitive fails when its pool is
\* full.  The facade is run against a device pool with one more entry.
MaxHandles == 1
\* Number of Ni845x objects alive at the same time.
MaxSessions == 2
\* Longest SPI write buffer.
MaxLen == 1
\* Most devices the driver enumerates.
MaxDevices == 2
\* Longest buffer of a simulated transfer.
MaxMockLen == 4
\* Most entries of the command history.
MaxHistory == 2
\* Longest text given to the parser over its whole alphabet.
MaxText == 4

\* --------------------------------------------------------------- constants
kNi845xErrorNoError == 0

\* The code -1 the wrapper itself puts in an Ni845xError (handle closed,
\* driver not loaded).
WrapperErrorCode == -1

NullHandle == 0

\* Status codes the driver may return: success, a warning (> 0), an error.
DriverStatus == {0, 5, -7}

ErrorStatus == DriverStatus \ {0}

\* The status of a primitive that cannot succeed (no free handle, invalid
\* handle, unknown device), whatever the environment would have answered.
DrvRefused == CHOOSE s \in DriverStatus : s < 0

ByteVals == {255}

DeviceNames == {"USB-8451-0", "USB-8451-1", "USB-8452-0"}

\* The enumeration of the test fixture.
FixtureDevices == <<"USB-8451-0", "USB-8451-1">>

VARIABLES
    dll_loaded,   \* ni845x._dll_loaded: the driver library was loaded at import
    attached,     \* the devices the driver enumerates, in the driver's order
    drv,          \* the driver's handle table: handle -> open or not
    objs,         \* the _HandleManager objects: slot -> object
    hh,           \* the HardwareHandler: its device and spi_config references
    mock,         \* the MockHardwareHandler: its is_open flag
    vm,           \* the MainViewModel: its backend and its observable variables
    last          \* the operation that ran last: its driver calls and outcome

vars == <<dll_loaded, attached, drv, objs, hh, mock, vm, last>>

Min(a, b) == IF a < b THEN a ELSE b

RECURSIVE SeqsUpTo(_, _)
SeqsUpTo(S, n) ==
    IF n = 0 THEN {<<>>}
    ELSE LET shorter == SeqsUpTo(S, n - 1)
         IN shorter \cup {Append(s, x) : s \in {t \in shorter : Len(t) = n - 1}, x \in S}

\* The enumerations the driver may hold: distinct names, in any order.
Enumerations ==
    {s \in SeqsUpTo(DeviceNames, MaxDevices) :
        \A i, j \in 1..Len(s) : i /= j => s[i] /= s[j]}

Range(s) == {s[i] : i \in 1..Len(s)}

\* ------------------------------------------------------------ the driver
\* Handles are the driver's choice.  The model's driver keeps one pool of
\* handle values per kind of resource and hands out the lowest free one.
PoolSpan == MaxHandles + 1

PoolBase(kind) ==
    CASE kind = "dev" -> 0
      [] kind = "spi" -> PoolSpan
      [] kind = "i2c" -> 2 * PoolSpan
      [] OTHER -> 3 * PoolSpan

Pool(kind, size) == {PoolBase(kind) + i : i \in 1..size}

KindOf(h) ==
    CASE h \in Pool("dev", PoolSpan) -> "dev"
      [] h \in Pool("spi", PoolSpan) -> "spi"
      [] h \in Pool("i2c", PoolSpan) -> "i2c"
      [] OTHER -> "find"

\* A handle table with `devs` device handles and MaxHandles of each other kind.
FreeTable(devs) ==
    [h \in Pool("dev", devs) \cup Pool("spi", MaxHandles) \cup Pool("i2c", MaxHandles)
           \cup Pool("find", MaxHandles) |-> FALSE]

FreeIn(tbl, kind) == {h \in DOMAIN tbl : KindOf(h) = kind /\ ~tbl[h]}

HasFree(tbl, kind) == FreeIn(tbl, kind) /= {}

\* The handle an open primitive hands out: the lowest free one of its pool.
Alloc(tbl, kind) == CHOOSE h \in FreeIn(tbl, kind) : \A k \in FreeIn(tbl, kind) : h <= k

IsOpen(tbl, h, kind) == h \in DOMAIN tbl /\ KindOf(h) = kind /\ tbl[h]

OpenCount(tbl, kind) == Cardinality({h \in DOMAIN tbl : KindOf(h) = kind /\ tbl[h]})

\* What the driver answers: the environment's status s, except that a
\* primitive that cannot succeed never answers 0.
DrvStatus(feasible, s) == IF feasible \/ s /= 0 THEN s ELSE DrvRefused

\* One driver call as recorded in st.calls: the primitive, the handle it was
\* given (or handed out), its status, and the number of device handles open
\* in the driver when it returned.
Call(fn, h, status, tbl) ==
    [fn |-> fn, h |-> h, status |-> status, devOpen |-> OpenCount(tbl, "dev")]

\* ni845xOpen / ni845xSpiConfigurationOpen / ni845xI2cConfigurationOpen /
\* ni845xFindDevice: on status 0 a fresh handle of that kind is open.
DrvOpen(st, fn, kind, feasible, s) ==
    LET status == DrvStatus(feasible /\ HasFree(st.drv, kind), s)
        h == IF status = 0 THEN Alloc(st.drv, kind) ELSE NullHandle
        tbl == IF status = 0 THEN [st.drv EXCEPT ![h] = TRUE] ELSE st.drv
    IN [st |-> [st EXCEPT !.drv = tbl, !.calls = Append(@, Call(fn, h, status, tbl))],
        status |-> status, h |-> h]

\* ni845xClose / ni845x...ConfigurationClose / ni845xCloseFindDeviceHandle:
\* on status 0 the handle is released; a failed release leaves it open.
DrvRelease(st, fn, kind, h, s) ==
    LET status == DrvStatus(IsOpen(st.drv, h, kind), s)
        tbl == IF status = 0 THEN [st.drv EXCEPT ![h] = FALSE] ELSE st.drv
    IN [st |-> [st EXCEPT !.drv = tbl, !.calls = Append(@, Call(fn, h, status, tbl))],
        status |-> status]

\* Any other primitive taking a handle: it changes nothing the model tracks.
DrvInvoke(st, fn, kind, h, feasible, s) ==
    LET status == DrvStatus(feasible /\ IsOpen(st.drv, h, kind), s)
    IN [st |-> [st EXCEPT !.calls = Append(@, Call(fn, h, status, st.drv))],
        status |-> status]

\* -------------------------------------------------------- error handling
NoExc == [kind |-> "none", code |-> 0, fn |-> ""]

\* Ni845xError(error_code, function_name): the constructor asks the DLL for
\* the message through ni845x_dll.ni845xStatusToString; with the library not
\* loaded ni845x_dll is None and the attribute lookup, which is outside the
\* constructor's try block, raises AttributeError instead.
Ni845xError(error_code, function_name) ==
    IF dll_loaded
    THEN [kind |-> "Ni845xError", code |-> error_code, fn |-> function_name]
    ELSE [kind |-> "AttributeError", code |-> 0, fn |-> "ni845xStatusToString"]

\* Variant of _check_error: only negative codes are errors, positive codes
\* pass as warnings.
check_error_negative_only(status_code, func_name) ==
    IF status_code < kNi845xErrorNoError
    THEN Ni845xError(status_code, func_name)
    ELSE NoExc

check_error(status_code, func_name) ==
    IF status_code /= kNi845xErrorNoError
    THEN Ni845xError(status_code, func_name)
    ELSE NoExc

Raised(r) == r.exc.kind /= "none"

\* Return values, one shape for all operations.
RetNone == [kind |-> "None", b |-> FALSE, n |-> 0, bytes |-> <<>>, names |-> <<>>]
RetBool(b) == [RetNone EXCEPT !.kind = "bool", !.b = b]
RetInt(n) == [RetNone EXCEPT !.kind = "int", !.n = n]
RetBytes(s) == [RetNone EXCEPT !.kind = "bytes", !.bytes = s]
RetNames(s) == [RetNone EXCEPT !.kind = "names", !.names = s]

Ok(st, ret) == [st |-> st, exc |-> NoExc, ret |-> ret]
Raise(st, exc) == [st |-> st, exc |-> exc, ret |-> RetNone]

\* ----------------------------------------------------- _HandleManager
\* A guard object.  kind, handle (_handle; NullHandle once it is None) and
\* closed (_closed) are the program's fields.  The others are history kept
\* for the properties: close_called (close() was entered at least once) and
\* ok_releases (how often the release function answered 0 for this object).
FreeObj ==
    [kind |-> "none", handle |-> NullHandle, closed |-> FALSE,
     close_called |-> FALSE, ok_releases |-> 0]

\* Object identities are slots: the first MaxSessions hold Ni845x objects,
\* the next one a SpiConfiguration, the one after an I2cConfiguration.
DevSlots == 1..MaxSessions
SpiSlot == MaxSessions + 1
I2cSlot == MaxSessions + 2

SlotKind(o) == IF o \in DevSlots THEN "dev" ELSE IF o = SpiSlot THEN "spi" ELSE "i2c"

NoObjs(slots) == [o \in slots |-> FreeObj]

Live(os, o) == o \in DOMAIN os /\ os[o].kind /= "none"

FreeSlots(os, kind) == {o \in DOMAIN os : SlotKind(o) = kind /\ os[o].kind = "none"}

HasFreeSlot(os, kind) == FreeSlots(os, kind) /= {}

NewSlot(os, kind) == CHOOSE o \in FreeSlots(os, kind) : \A k \in FreeSlots(os, kind) : o <= k

\* The release function bound by each subclass's __init__.
CloseFunc(kind) ==
    CASE kind = "dev" -> "ni845xClose"
      [] kind = "spi" -> "ni845xSpiConfigurationClose"
      [] OTHER -> "ni845xI2cConfigurationClose"

\* _HandleManager.__init__(handle, close_func)
HandleManager_init(st, o, kind, handle) ==
    [st EXCEPT !.objs[o] = [FreeObj EXCEPT !.kind = kind, !.handle = handle]]

\* Variant of close(): tests only the handle, and leaves it in place when it
\* marks the guard closed.
HandleManager_close_keeps_handle(st, o, s) ==
    LET g == st.objs[o]
        st0 == [st EXCEPT !.objs[o].close_called = TRUE]
    IN IF g.handle /= NullHandle
       THEN LET d == DrvRelease(st0, CloseFunc(g.kind), g.kind, g.handle, s)
                counted == [d.st EXCEPT !.objs[o].ok_releases = @ + (IF d.status = 0 THEN 1 ELSE 0)]
                e == check_error(d.status, CloseFunc(g.kind))
            IN IF e.kind /= "none" THEN Raise(counted, e)
               ELSE Ok([counted EXCEPT !.objs[o].closed = TRUE], RetNone)
       ELSE Ok(st0, RetNone)

\* _HandleManager.close()
HandleManager_close(st, o, s) ==
    LET g == st.objs[o]
        st0 == [st EXCEPT !.objs[o].close_called = TRUE]
    IN IF g.handle /= NullHandle /\ ~g.closed
       THEN LET d == DrvRelease(st0, CloseFunc(g.kind), g.kind, g.handle, s)
                counted == [d.st EXCEPT !.objs[o].ok_releases = @ + (IF d.status = 0 THEN 1 ELSE 0)]
                e == check_error(d.status, CloseFunc(g.kind))
            IN IF e.kind /= "none"
               THEN Raise(counted, e)
               ELSE Ok([counted EXCEPT !.objs[o].handle = NullHandle, !.objs[o].closed = TRUE],
                       RetNone)
       ELSE Ok(st0, RetNone)

\* Variant of the property: _handle is returned without the test of _closed.
HandleManager_handle_unchecked(st, o) == Ok(st, RetInt(st.objs[o].handle))

\* _HandleManager.handle (the property)
HandleManager_handle(st, o) ==
    IF st.objs[o].closed
    THEN Raise(st, Ni845xError(WrapperErrorCode, "Handle is closed."))
    ELSE Ok(st, RetInt(st.objs[o].handle))

\* _HandleManager.__del__, run when the last reference to o goes away:
\* close(), an exception in it being printed and dropped by the interpreter;
\* the object is then gone.
HandleManager_del(st, o, s) ==
    LET r == HandleManager_close(st, o, s)
    IN [r.st EXCEPT !.objs[o] = FreeObj]

\* ----------------------------------------------------- configurations
ConfigOpenFunc(kind) ==
    IF kind = "spi" THEN "ni845xSpiConfigurationOpen" ELSE "ni845xI2cConfigurationOpen"

\* SpiConfiguration.__init__ / I2cConfiguration.__init__, reached through
\* Ni845x.create_spi_config / create_i2c_config.
\* With the library not loaded ni845x_dll is None: AttributeError.
Configuration_init(st, kind, s) ==
    IF ~dll_loaded
    THEN Raise(st, [kind |-> "AttributeError", code |-> 0, fn |-> ConfigOpenFunc(kind)])
    ELSE LET d == DrvOpen(st, ConfigOpenFunc(kind), kind, TRUE, s)
             e == check_error(d.status, ConfigOpenFunc(kind))
             o == NewSlot(d.st.objs, kind)
         IN IF e.kind /= "none"
            THEN Raise(d.st, e)
            ELSE Ok(HandleManager_init(d.st, o, kind, d.h), RetInt(o))

SpiSetters ==
    {"ni845xSpiConfigurationSetClockRate", "ni845xSpiConfigurationSetChipSelect",
     "ni845xSpiConfigurationSetPort", "ni845xSpiConfigurationSetClockPolarity",
     "ni845xSpiConfigurationSetClockPhase", "ni845xSpiConfigurationSetNumBitsPerSample"}

\* SpiConfiguration.set_clock_rate ... set_num_bits_per_sample: self.handle,
\* one driver call, _check_error.
SpiConfiguration_set(st, c, fn, s) ==
    LET hr == HandleManager_handle(st, c)
    IN IF Raised(hr) THEN hr
       ELSE LET d == DrvInvoke(st, fn, "spi", hr.ret.n, TRUE, s)
                e == check_error(d.status, fn)
            IN IF e.kind /= "none" THEN Raise(d.st, e) ELSE Ok(d.st, RetNone)

\* ------------------------------------------------------------- Ni845x
\* Ni845x.create_spi_config() / create_i2c_config(): return SpiConfiguration()
Ni845x_create_config(st, kind, s) == Configuration_init(st, kind, s)

\* Ni845x.__exit__: self.close()
Ni845x_exit(st, o, s) == HandleManager_close(st, o, s)

\* Ni845x.__init__(resource_name)
Ni845x_init(st, resource_name, s) ==
    IF ~dll_loaded
    THEN Raise(st, Ni845xError(WrapperErrorCode, "Cannot open device: NI-845x driver not loaded."))
    ELSE LET d == DrvOpen(st, "ni845xOpen", "dev", resource_name \in Range(attached), s)
             e == check_error(d.status, "ni845xOpen")
             o == NewSlot(d.st.objs, "dev")
         IN IF e.kind /= "none"
            THEN Raise(d.st, e)
            ELSE Ok(HandleManager_init(d.st, o, "dev", d.h), RetInt(o))

SessionFns ==
    {"ni845xSetTimeout", "ni845xSetIoVoltageLevel", "ni845xDioSetPortLineDirectionMap",
     "ni845xDioWritePort", "ni845xDioReadPort"}

\* Ni845x.set_timeout, set_io_voltage_level, dio_set_port_line_direction_map,
\* dio_write_port, dio_read_port: self.handle, one driver call, _check_error;
\* dio_read_port returns the byte v the driver stored.
Ni845x_session_op(st, o, fn, s, v) ==
    LET hr == HandleManager_handle(st, o)
    IN IF Raised(hr) THEN hr
       ELSE LET d == DrvInvoke(st, fn, "dev", hr.ret.n, TRUE, s)
                e == check_error(d.status, fn)
            IN IF e.kind /= "none" THEN Raise(d.st, e)
               ELSE Ok(d.st, IF fn = "ni845xDioReadPort" THEN RetInt(v) ELSE RetNone)

\* Variant of the allocation: one spare byte.
ReadBufferSize_one_more(write_size) == write_size + 1

\* (uInt8 * write_size)(): the size of the read buffer spi_write_read allocates.
ReadBufferSize(write_size) == write_size

\* (uInt8 * size)(): a ctypes array, zero-filled.
ZeroBuffer(size) == [i \in 1..size |-> 0]

\* The driver's side of a read: it stores the bytes `data` it received at the
\* start of the buffer it was given.  (Bytes a driver writes past the end of
\* the buffer land outside the array and are not part of the model.)
DrvFill(buffer, data) ==
    [i \in 1..Len(buffer) |-> IF i <= Len(data) THEN data[i] ELSE buffer[i]]

\* read_buffer[:n] of a ctypes array: at most the whole array.
PySlice(buffer, n) == SubSeq(buffer, 1, Min(n, Len(buffer)))

\* Ni845x.spi_write_read(config, write_data): the driver reports read_size
\* and stores data in read_buffer.
Ni845x_spi_write_read(st, o, c, write_data, s, read_size, data) ==
    LET hr == HandleManager_handle(st, o)
    IN IF Raised(hr) THEN hr
       ELSE LET cr == HandleManager_handle(st, c)
            IN IF Raised(cr) THEN cr
               ELSE LET d == DrvInvoke(st, "ni845xSpiWriteRead", "dev", hr.ret.n,
                                       IsOpen(st.drv, cr.ret.n, "spi"), s)
                        read_buffer == DrvFill(ZeroBuffer(ReadBufferSize(Len(write_data))), data)
                    IN IF d.status /= kNi845xErrorNoError
                       THEN Raise(d.st, check_error(d.status, "ni845xSpiWriteRead"))
                       ELSE Ok(d.st, RetBytes(PySlice(read_buffer, read_size)))

\* Ni845x.i2c_write(config, write_data)
Ni845x_i2c_write(st, o, c, s) ==
    LET hr == HandleManager_handle(st, o)
    IN IF Raised(hr) THEN hr
       ELSE LET cr == HandleManager_handle(st, c)
            IN IF Raised(cr) THEN cr
               ELSE LET d == DrvInvoke(st, "ni845xI2cWrite", "dev", hr.ret.n,
                                       IsOpen(st.drv, cr.ret.n, "i2c"), s)
                    IN IF d.status /= kNi845xErrorNoError
                       THEN Raise(d.st, check_error(d.status, "ni845xI2cWrite"))
                       ELSE Ok(d.st, RetNone)

\* Ni845x.i2c_read(config, num_bytes_to_read)
Ni845x_i2c_read(st, o, c, num_bytes_to_read, s, read_size, data) ==
    LET hr == HandleManager_handle(st, o)
    IN IF Raised(hr) THEN hr
       ELSE LET cr == HandleManager_handle(st, c)
            IN IF Raised(cr) THEN cr
               ELSE LET d == DrvInvoke(st, "ni845xI2cRead", "dev", hr.ret.n,
                                       IsOpen(st.drv, cr.ret.n, "i2c"), s)
                        read_buffer == DrvFill(ZeroBuffer(num_bytes_to_read), data)
                    IN IF d.status /= kNi845xErrorNoError
                       THEN Raise(d.st, check_error(d.status, "ni845xI2cRead"))
                       ELSE Ok(d.st, RetBytes(PySlice(read_buffer, read_size)))

\* ------------------------------------------------- Ni845x.find_devices
\* The statuses of one operation's driver calls, by position: the call at
\* position failAt answers code, the others 0.  An operation stops at its
\* first failing call, so this covers every run of it.
MaxCalls == MaxDevices + 2

Statuses(failAt, code) == [k \in 1..MaxCalls |-> IF k = failAt THEN code ELSE 0]

\* ni845xFindDevice: a find handle, the number of devices and the first name.
DrvFindDevice(st, s) ==
    LET d == DrvOpen(st, "ni845xFindDevice", "find", TRUE, s)
    IN [st |-> d.st, status |-> d.status, h |-> d.h,
        num_found |-> IF d.status = 0 THEN Len(attached) ELSE 0,
        first |-> IF d.status = 0 /\ Len(attached) > 0 THEN attached[1] ELSE ""]

\* ni845xFindDeviceNext: the name after the `given` names the handle has
\* handed out so far; none is left once the enumeration is exhausted.
DrvFindDeviceNext(st, h, given, s) ==
    LET d == DrvInvoke(st, "ni845xFindDeviceNext", "find", h, given < Len(attached), s)
    IN [st |-> d.st, status |-> d.status,
        name |-> IF d.status = 0 /\ given < Len(attached) THEN attached[given + 1] ELSE ""]

\* for _ in range(count): ni845xFindDeviceNext, _check_error, append
RECURSIVE FindNextLoop(_, _, _, _, _)
\* One turn of the loop, d being what ni845xFindDeviceNext answered.
FindNextTurn(d, find_handle, devices, count, sts) ==
    IF d.status /= kNi845xErrorNoError
    THEN Raise(d.st, check_error(d.status, "ni845xFindDeviceNext"))
    ELSE FindNextLoop(d.st, find_handle, Append(devices, d.name), count - 1, sts)

FindNextLoop(st, find_handle, devices, count, sts) ==
    IF count <= 0
    THEN Ok(st, RetNames(devices))
    ELSE FindNextTurn(DrvFindDeviceNext(st, find_handle, Len(devices), sts[Len(st.calls) + 1]),
                      find_handle, devices, count, sts)

\* Variant of the loop bound: one ni845xFindDeviceNext per device reported.
NextCalls_every_device(num_found) == num_found

\* The number of ni845xFindDeviceNext calls for a reported count.
NextCalls(num_found) == num_found - 1

\* status = ni845xCloseFindDeviceHandle(find_handle); _check_error; return devices
FindClosed(c, devices) ==
    IF c.status /= kNi845xErrorNoError
    THEN Raise(c.st, check_error(c.status, "ni845xCloseFindDeviceHandle"))
    ELSE Ok(c.st, devices)

\* After the loop, l being its outcome.
FindAfterLoop(l, find_handle, sts) ==
    IF Raised(l) THEN l
    ELSE FindClosed(DrvRelease(l.st, "ni845xCloseFindDeviceHandle", "find", find_handle,
                               sts[Len(l.st.calls) + 1]),
                    l.ret)

\* After ni845xFindDevice, f being what it answered.
FindAfterFirst(f, sts) ==
    IF f.status /= kNi845xErrorNoError
    THEN Raise(f.st, check_error(f.status, "ni845xFindDevice"))
    ELSE IF f.num_found = 0
    THEN Ok(f.st, RetNames(<<>>))
    ELSE FindAfterLoop(FindNextLoop(f.st, f.h, <<f.first>>, NextCalls(f.num_found), sts),
                       f.h, sts)

\* Ni845x.find_devices()
Ni845x_find_devices(st, sts) ==
    IF ~dll_loaded
    THEN Ok(st, RetNames(<<>>))
    ELSE FindAfterFirst(DrvFindDevice(st, sts[Len(st.calls) + 1]), sts)

\* ---------------------------------------------------- HardwareHandler
\* device and spi_config are references to objects (0: None).  cfg_stale is
\* history kept for the properties: the session that was open when
\* spi_config was created has since been closed, replaced or dropped.
\* Here st also carries the handler: st = [drv, objs, calls, hh].
NoHandler == [device |-> 0, spi_config |-> 0, cfg_stale |-> FALSE]

\* History only: the session under which spi_config was created is gone.
SessionGone(h) == [h EXCEPT !.cfg_stale = (h.spi_config /= 0)]

\* self.device = ref: the object the attribute referred to loses its last
\* reference and the interpreter runs its __del__ at once (reference
\* counting); s_del is the status of the release __del__ may issue.
SetDevice(st, ref, s_del) ==
    LET old == st.hh.device
        st1 == [st EXCEPT !.hh = [(IF old /= 0 THEN SessionGone(@) ELSE @) EXCEPT !.device = ref]]
    IN IF old /= 0 /\ old /= ref THEN HandleManager_del(st1, old, s_del) ELSE st1

\* try: r  except Ni845xError: return ret
ExceptNi845xError(r, ret) == IF r.exc.kind = "Ni845xError" THEN Ok(r.st, ret) ELSE r

\* HardwareHandler.find_devices()
HardwareHandler_find_devices(st, sts) ==
    ExceptNi845xError(Ni845x_find_devices(st, sts), RetNames(<<>>))

\* HardwareHandler.open_device(resource_name)
HardwareHandler_open_device(st, resource_name, s, s_del) ==
    LET r == Ni845x_init(st, resource_name, s)
    IN IF r.exc.kind = "none"
       THEN Ok(SetDevice(r.st, r.ret.n, s_del), RetBool(TRUE))
       ELSE IF r.exc.kind = "Ni845xError"
       THEN Ok(SetDevice(r.st, 0, s_del), RetBool(FALSE))
       ELSE r

\* HardwareHandler.close_device()
HardwareHandler_close_device(st, s) ==
    IF st.hh.device /= 0
    THEN LET r == HandleManager_close(st, st.hh.device, s)
         IN IF Raised(r) THEN r ELSE Ok(SetDevice(r.st, 0, s), RetNone)
    ELSE Ok(st, RetNone)

ConnectionError == [kind |-> "ConnectionError", code |-> 0, fn |-> "No device is currently open."]

\* HardwareHandler.spi_transfer(data)
HardwareHandler_spi_transfer(st, data, s_cfg, s, read_size, read_data) ==
    IF st.hh.device = 0
    THEN Raise(st, ConnectionError)
    ELSE LET c == IF st.hh.spi_config = 0
                  THEN Ni845x_create_config(st, "spi", s_cfg)
                  ELSE Ok(st, RetInt(st.hh.spi_config))
         IN IF Raised(c) THEN c
            ELSE LET st1 == [c.st EXCEPT !.hh.spi_config = c.ret.n]
                     r == Ni845x_spi_write_read(st1, st1.hh.device, st1.hh.spi_config,
                                                data, s, read_size, read_data)
                 IN ExceptNi845xError(r, RetNone)

\* ------------------------------------------------- MockHardwareHandler
\* Bytes of a simulated transfer: 0xDE, 0xAD, 0xBE, 0xEF.
MockByteVals == {222, 173, 190, 239}

SimDevice == "SIM-845x"

\* MockHardwareHandler.__init__.  `recent` is not a field of the program: it
\* remembers which of open_device / close_device was called last.
MockHardwareHandler_init == [is_open |-> FALSE, recent |-> ""]

\* MockHardwareHandler.find_devices()
MockHardwareHandler_find_devices(st) == Ok(st, RetNames(<<SimDevice>>))

\* Variant of open_device: refuses when a device is already open.
MockHardwareHandler_open_device_once(st, resource_name) ==
    IF st.mock.is_open
    THEN Ok([st EXCEPT !.mock.recent = "open_device"], RetBool(FALSE))
    ELSE Ok([st EXCEPT !.mock.is_open = TRUE, !.mock.recent = "open_device"], RetBool(TRUE))

\* MockHardwareHandler.open_device(resource_name)
MockHardwareHandler_open_device(st, resource_name) ==
    Ok([st EXCEPT !.mock.is_open = TRUE, !.mock.recent = "open_device"], RetBool(TRUE))

\* Variant of close_device: leaves the flag as it is.
MockHardwareHandler_close_device_keeps_flag(st) ==
    Ok([st EXCEPT !.mock.recent = "close_device"], RetNone)

\* MockHardwareHandler.close_device()
MockHardwareHandler_close_device(st) ==
    Ok([st EXCEPT !.mock.is_open = FALSE, !.mock.recent = "close_device"], RetNone)

\* Variant of the reversal: the data as sent.
Reverse_echo(data) == data

\* data[::-1]
Reverse(data) == [i \in 1..Len(data) |-> data[Len(data) - i + 1]]

\* MockHardwareHandler.spi_transfer(data)
MockHardwareHandler_spi_transfer(st, data) ==
    IF ~st.mock.is_open
    THEN Raise(st, ConnectionError)
    ELSE Ok(st, RetBytes(Reverse(data)))

\* ------------------------------------------------------------ hex text
\* A str is a sequence of one-character strings.
HexDigits == <<"0", "1", "2", "3", "4", "5", "6", "7", "8", "9", "A", "B", "C", "D", "E", "F">>
LowerDigits == <<"0", "1", "2", "3", "4", "5", "6", "7", "8", "9", "a", "b", "c", "d", "e", "f">>

\* The value of a hexadecimal digit of either case, -1 for any other character.
HexVal(c) ==
    IF \E k \in 1..16 : HexDigits[k] = c THEN (CHOOSE k \in 1..16 : HexDigits[k] = c) - 1
    ELSE IF \E k \in 1..16 : LowerDigits[k] = c THEN (CHOOSE k \in 1..16 : LowerDigits[k] = c) - 1
    ELSE -1

\* str.upper(), one character
UpperChar(c) ==
    IF \E k \in 11..16 : LowerDigits[k] = c
    THEN HexDigits[CHOOSE k \in 11..16 : LowerDigits[k] = c]
    ELSE c

\* str.upper()
Upper(s) == [i \in 1..Len(s) |-> UpperChar(s[i])]

\* The first index from i on that holds no whitespace (Len(s) + 1 if none).
\* bytes.fromhex skips ASCII whitespace between bytes: space, tab, line
\* feed, vertical tab (the character 0x0B itself, the fifth string below),
\* form feed and carriage return.
SkipSpace(s, i) ==
    LET AsciiSpace == {" ", "\t", "\n", "\r", "", "\f"}
    IN IF \E j \in i..Len(s) : s[j] \notin AsciiSpace
       THEN CHOOSE j \in i..Len(s) :
                s[j] \notin AsciiSpace /\ \A k \in i..(j - 1) : s[k] \in AsciiSpace
       ELSE Len(s) + 1

\* bytes.fromhex(s): whitespace is skipped before each byte and at the end; a
\* byte is two adjacent hexadecimal digits; anything else is a ValueError.
RECURSIVE FromHexAt(_, _, _)
FromHexAt(s, i, acc) ==
    LET j == SkipSpace(s, i)
    IN IF j > Len(s) THEN [ok |-> TRUE, bytes |-> acc]
       ELSE IF j + 1 > Len(s) \/ HexVal(s[j]) < 0 \/ HexVal(s[j + 1]) < 0
       THEN [ok |-> FALSE, bytes |-> <<>>]
       ELSE FromHexAt(s, j + 2, Append(acc, 16 * HexVal(s[j]) + HexVal(s[j + 1])))

FromHex(s) == FromHexAt(s, 1, <<>>)

\* bytes.hex().upper()
HexUpper(b) ==
    [i \in 1..(2 * Len(b)) |->
        IF i % 2 = 1 THEN HexDigits[(b[(i + 1) \div 2] \div 16) + 1]
        ELSE HexDigits[(b[i \div 2] % 16) + 1]]

\* The text of a str, for formatted output.
RECURSIVE Text(_)
Text(s) == IF s = <<>> THEN "" ELSE s[1] \o Text(Tail(s))

\* ------------------------------------------------------ protocol parser
\* A field of a definition: its name and its length in bytes, RestOfData for
\* "the rest of the data".
RestOfData == -1

Field(name, len) == [name |-> name, len |-> len]

PROTOCOL_DEFINITIONS ==
    [key \in {"01", "06", "C7", "default"} |->
        CASE key = "01" -> [name |-> "Read Status Register",
                            fields |-> <<Field("Command", 1), Field("Dummy Byte", 1)>>,
                            response |-> <<Field("Status", 1), Field("Dummy Byte", 1)>>]
          [] key = "06" -> [name |-> "Write Enable",
                            fields |-> <<Field("Command", 1)>>, response |-> <<>>]
          [] key = "C7" -> [name |-> "Chip Erase",
                            fields |-> <<Field("Command", 1)>>, response |-> <<>>]
          [] OTHER -> [name |-> "Unknown Command",
                       fields |-> <<Field("Data", RestOfData)>>,
                       response |-> <<Field("Data", RestOfData)>>]]

\* PROTOCOL_DEFINITIONS.get(key, PROTOCOL_DEFINITIONS["default"])
DefinitionFor(key) ==
    IF key \in DOMAIN PROTOCOL_DEFINITIONS THEN PROTOCOL_DEFINITIONS[key]
    ELSE PROTOCOL_DEFINITIONS["default"]

\* Variant of the slice: every field starts at the first byte.
SliceBytes_from_start(data, a, b) == SubSeq(data, 1, Min(b, Len(data)))

\* data[a:b] with 0-based bounds; data[a:] is data[a:len(data)]
SliceBytes(data, a, b) == SubSeq(data, a + 1, Min(b, Len(data)))

ValueError == [kind |-> "ValueError", code |-> 0, fn |-> "fromhex"]

\* One emitted field: its name, its length and its bytes in upper-case hex.
FieldLine(name, field_data) ==
    [name |-> name, n |-> Len(field_data), hex |-> HexUpper(field_data)]

\* The for loop of parse_hex_data from the k-th field on.  The cursor is
\* advanced before the test that leaves the loop.
RECURSIVE ParseFields(_, _, _, _, _)
ParseFieldsStep(field_map, k, data_bytes, field_data, next_cursor, lines) ==
    IF field_data = <<>>
    THEN [cursor |-> next_cursor, lines |-> lines]
    ELSE ParseFields(field_map, k + 1, data_bytes, next_cursor,
                     Append(lines, FieldLine(field_map[k].name, field_data)))

ParseFields(field_map, k, data_bytes, byte_cursor, lines) ==
    IF k > Len(field_map)
    THEN [cursor |-> byte_cursor, lines |-> lines]
    ELSE IF field_map[k].len = RestOfData
    THEN ParseFieldsStep(field_map, k, data_bytes, SliceBytes(data_bytes, byte_cursor, Len(data_bytes)),
                         Len(data_bytes), lines)
    ELSE ParseFieldsStep(field_map, k, data_bytes,
                         SliceBytes(data_bytes, byte_cursor, byte_cursor + field_map[k].len),
                         byte_cursor + field_map[k].len, lines)

\* "\n".join of the field lines
RECURSIVE FieldLinesText(_)
FieldLinesText(lines) ==
    IF lines = <<>> THEN ""
    ELSE "\n - " \o lines[1].name \o " (" \o ToString(lines[1].n) \o "B): 0x"
         \o Text(lines[1].hex) \o FieldLinesText(Tail(lines))

\* The result of parse_hex_data: the text it returns and what the text is
\* made of (definition name, emitted fields, unparsed bytes, final cursor).
Breakdown(kind, name, lines, unparsed, cursor, total, text) ==
    [exc |-> NoExc, kind |-> kind, name |-> name, lines |-> lines,
     unparsed |-> unparsed, cursor |-> cursor, total |-> total, text |-> text]

ParseFailed ==
    [exc |-> ValueError, kind |-> "error", name |-> "", lines |-> <<>>,
     unparsed |-> <<>>, cursor |-> 0, total |-> 0, text |-> ""]

\* The part of parse_hex_data after the loop.
ParseFinish(definition, is_command, data_bytes, walked) ==
    LET unparsed == IF walked.cursor < Len(data_bytes)
                    THEN HexUpper(SliceBytes(data_bytes, walked.cursor, Len(data_bytes))) ELSE <<>>
    IN Breakdown("fields", definition.name, walked.lines, unparsed, walked.cursor,
                 Len(data_bytes),
                 definition.name \o " (" \o (IF is_command THEN "Command" ELSE "Response") \o ")"
                 \o FieldLinesText(walked.lines)
                 \o (IF walked.cursor < Len(data_bytes)
                     THEN "\n - Unparsed Data: 0x" \o Text(unparsed) ELSE ""))

\* Variant of parse_hex_data: an empty field map is walked like any other.
ParseWith_walks_empty_map(definition, is_command, data_bytes) ==
    ParseFinish(definition, is_command, data_bytes,
                ParseFields(IF is_command THEN definition.fields ELSE definition.response,
                            1, data_bytes, 0, <<>>))

\* The part of parse_hex_data after the definition is chosen.
ParseWith(definition, is_command, data_bytes) ==
    LET field_map == IF is_command THEN definition.fields ELSE definition.response
    IN IF field_map = <<>>
       THEN Breakdown("nofields", definition.name, <<>>, <<>>, 0, Len(data_bytes),
                      definition.name \o " (Response)\n - No response fields defined.")
       ELSE ParseFinish(definition, is_command, data_bytes,
                        ParseFields(field_map, 1, data_bytes, 0, <<>>))

\* parse_hex_data(hex_string, is_command)
parse_hex_data(hex_string, is_command) ==
    IF hex_string = <<>>
    THEN Breakdown("nodata", "", <<>>, <<>>, 0, 0, "No data to parse.")
    ELSE IF ~FromHex(hex_string).ok THEN ParseFailed
    ELSE ParseWith(DefinitionFor(Text(Upper(SubSeq(hex_string, 1, Min(2, Len(hex_string)))))),
                   is_command, FromHex(hex_string).bytes)

\* --------------------------------------------------------- MainViewModel
\* The view model before __init__ has run.  `variables` is the class behind
\* ctk.Variable: "tkinter" for the classes customtkinter exports, whose
\* Variable holds a Tcl value (get() of a variable set to [] returns the
\* str ''), "MockCtkVar" for the class the test suite puts in their place,
\* which holds the object last set.  `sent` is not a field of the program:
\* it lists, for every spi_transfer of the backend that returned bytes, the
\* command text and those bytes.
NoViewModel ==
    [constructed |-> FALSE, variables |-> "MockCtkVar", backend |-> "none",
     simulation_mode |-> FALSE,
     is_connected |-> FALSE, device_list |-> <<>>, selected_device |-> "",
     command_history |-> <<>>, breakdown_text |-> "", sent |-> <<>>]

\* What an operation did to the backend instance: whether it replaced it and
\* whether the instance it replaced still held an open device.
NoSwap == [replaced |-> FALSE, dropped_open |-> FALSE]

HistoryEntry(command, response) == [command |-> command, response |-> response]

\* A call of a method of self.hardware_handler.
BackendCalled(st, fn) == [st EXCEPT !.bcalls = Append(@, fn)]

\* The statuses sts of the driver calls of find_devices, placed after the
\* driver calls the operation has made before.
StatusesAfter(calls, sts) ==
    [i \in 1..(Len(calls) + Len(sts)) |-> IF i <= Len(calls) THEN 0 ELSE sts[i - Len(calls)]]

Backend_find_devices(st, sts) ==
    IF st.vm.backend = "mock"
    THEN MockHardwareHandler_find_devices(BackendCalled(st, "find_devices"))
    ELSE HardwareHandler_find_devices(BackendCalled(st, "find_devices"),
                                      StatusesAfter(st.calls, sts))

Backend_open_device(st, resource_name, s, s_del) ==
    IF st.vm.backend = "mock"
    THEN MockHardwareHandler_open_device(BackendCalled(st, "open_device"), resource_name)
    ELSE HardwareHandler_open_device(BackendCalled(st, "open_device"), resource_name, s, s_del)

Backend_close_device(st, s) ==
    IF st.vm.backend = "mock"
    THEN MockHardwareHandler_close_device(BackendCalled(st, "close_device"))
    ELSE HardwareHandler_close_device(BackendCalled(st, "close_device"), s)

Backend_spi_transfer(st, data, s_cfg, s, read_size, read_data) ==
    IF st.vm.backend = "mock"
    THEN MockHardwareHandler_spi_transfer(BackendCalled(st, "spi_transfer"), data)
    ELSE HardwareHandler_spi_transfer(BackendCalled(st, "spi_transfer"), data, s_cfg, s,
                                      read_size, read_data)

\* The backend instance holds an open device.
BackendOpen(st) ==
    IF st.vm.backend = "mock" THEN st.mock.is_open
    ELSE st.vm.backend = "real" /\ st.hh.device /= 0

\* The HardwareHandler that self.hardware_handler no longer refers to is
\* collected: so are the Ni845x and the SpiConfiguration it refers to.
DropConfig(st, s_del) ==
    IF st.hh.spi_config /= 0 THEN HandleManager_del(st, st.hh.spi_config, s_del) ELSE st

DropHandler(st, s_del) ==
    IF st.hh.device /= 0
    THEN DropConfig(HandleManager_del(st, st.hh.device, s_del), s_del)
    ELSE DropConfig(st, s_del)

\* Variant of _update_hardware_handler: a new backend starts a new history.
MainViewModel_update_hardware_handler_new_history(st, s_del) ==
    [DropHandler(st, s_del) EXCEPT
        !.vm.backend = IF st.vm.simulation_mode THEN "mock" ELSE "real",
        !.vm.command_history = <<>>,
        !.vm.sent = <<>>,
        !.hh = NoHandler,
        !.mock = MockHardwareHandler_init,
        !.swap = [replaced |-> st.vm.backend /= "none", dropped_open |-> BackendOpen(st)]]

\* MainViewModel._update_hardware_handler()
MainViewModel_update_hardware_handler(st, s_del) ==
    [DropHandler(st, s_del) EXCEPT
        !.vm.backend = IF st.vm.simulation_mode THEN "mock" ELSE "real",
        !.hh = NoHandler,
        !.mock = MockHardwareHandler_init,
        !.swap = [replaced |-> st.vm.backend /= "none", dropped_open |-> BackendOpen(st)]]

\* Variant of refresh_devices: a selection that is still listed is kept.
RefreshWith_keeps_selection(r) ==
    IF Raised(r) THEN r
    ELSE Ok([r.st EXCEPT !.vm.device_list = r.ret.names,
                         !.vm.selected_device =
                             IF @ \in Range(r.ret.names) THEN @
                             ELSE IF r.ret.names /= <<>> THEN r.ret.names[1] ELSE ""],
            RetNone)

\* MainViewModel.refresh_devices(), after find_devices returned
RefreshWith(r) ==
    IF Raised(r) THEN r
    ELSE Ok([r.st EXCEPT !.vm.device_list = r.ret.names,
                         !.vm.selected_device =
                             IF r.ret.names /= <<>> THEN r.ret.names[1] ELSE ""],
            RetNone)

\* MainViewModel.refresh_devices()
MainViewModel_refresh_devices(st, sts) == RefreshWith(Backend_find_devices(st, sts))

\* MainViewModel.__init__()
MainViewModel_init(st, sts) ==
    MainViewModel_refresh_devices(
        MainViewModel_update_hardware_handler(
            [st EXCEPT !.vm = [NoViewModel EXCEPT !.constructed = TRUE,
                                                  !.variables = st.vm.variables,
                                                  !.simulation_mode = ~dll_loaded]],
            0),
        sts)

\* Variant of disconnect_device: the connected flag is left as it is.
DisconnectWith_keeps_flag(r) == IF Raised(r) THEN r ELSE Ok(r.st, RetNone)

\* MainViewModel.disconnect_device(), after close_device returned
DisconnectWith(r) ==
    IF Raised(r) THEN r ELSE Ok([r.st EXCEPT !.vm.is_connected = FALSE], RetNone)

\* MainViewModel.disconnect_device()
MainViewModel_disconnect_device(st, s) == DisconnectWith(Backend_close_device(st, s))

\* MainViewModel.toggle_simulation_mode(), from "Disconnect from any device
\* before changing the handler" on; d is the outcome of that step.
ToggleAfterDisconnect(d, s_del, sts) ==
    IF Raised(d) THEN d
    ELSE MainViewModel_refresh_devices(MainViewModel_update_hardware_handler(d.st, s_del), sts)

\* Variant of toggle_simulation_mode: without the test of _dll_loaded.
MainViewModel_toggle_simulation_mode_unguarded(st, s_close, s_del, sts) ==
    ToggleAfterDisconnect(
        IF st.vm.is_connected THEN MainViewModel_disconnect_device(st, s_close)
        ELSE Ok(st, RetNone),
        s_del, sts)

\* Variant of toggle_simulation_mode: replaces the backend without
\* disconnecting first.
MainViewModel_toggle_simulation_mode_keeps_session(st, s_close, s_del, sts) ==
    IF ~st.vm.simulation_mode /\ ~dll_loaded
    THEN Ok([st EXCEPT !.vm.simulation_mode = TRUE], RetNone)
    ELSE ToggleAfterDisconnect(Ok(st, RetNone), s_del, sts)

\* MainViewModel.toggle_simulation_mode()
MainViewModel_toggle_simulation_mode(st, s_close, s_del, sts) ==
    IF ~st.vm.simulation_mode /\ ~dll_loaded
    THEN Ok([st EXCEPT !.vm.simulation_mode = TRUE], RetNone)
    ELSE ToggleAfterDisconnect(
             IF st.vm.is_connected THEN MainViewModel_disconnect_device(st, s_close)
             ELSE Ok(st, RetNone),
             s_del, sts)

\* MainViewModel.connect_device(), after open_device returned
ConnectWith(r) ==
    IF Raised(r) THEN r ELSE Ok([r.st EXCEPT !.vm.is_connected = r.ret.b], RetNone)

\* MainViewModel.connect_device()
MainViewModel_connect_device(st, s, s_del) ==
    IF st.vm.selected_device = ""
    THEN Ok(st, RetNone)
    ELSE ConnectWith(Backend_open_device(st, st.vm.selected_device, s, s_del))

\* Variant of the history update: the command is stored in upper case.
SendWith_normalised(command_hex, r) ==
    IF Raised(r) THEN r
    ELSE IF r.ret.kind = "bytes"
    THEN Ok([r.st EXCEPT
                !.vm.command_history =
                    Append(@, HistoryEntry(Upper(command_hex), HexUpper(r.ret.bytes))),
                !.vm.sent = Append(@, [command |-> command_hex, bytes |-> r.ret.bytes])],
            RetNone)
    ELSE Ok(r.st, RetNone)

\* Variant of the history update: a transfer that returned None is recorded
\* with an empty response.
SendWith_records_failure(command_hex, r) ==
    IF Raised(r) THEN r
    ELSE Ok([r.st EXCEPT
                !.vm.command_history =
                    Append(@, HistoryEntry(command_hex, HexUpper(r.ret.bytes)))],
            RetNone)

\* MainViewModel.send_spi_command(), after spi_transfer returned.  With the
\* tkinter variables new_history is the '' that get() returns for the empty
\* list the history was set to, and new_history.append raises.
SendWith(command_hex, r) ==
    IF Raised(r) THEN r
    ELSE IF r.ret.kind = "bytes"
    THEN IF r.st.vm.variables = "tkinter"
         THEN Raise([r.st EXCEPT
                        !.vm.sent = Append(@, [command |-> command_hex,
                                               bytes |-> r.ret.bytes])],
                    [kind |-> "AttributeError", code |-> 0, fn |-> "append"])
         ELSE Ok([r.st EXCEPT
                     !.vm.command_history =
                         Append(@, HistoryEntry(command_hex, HexUpper(r.ret.bytes))),
                     !.vm.sent = Append(@, [command |-> command_hex, bytes |-> r.ret.bytes])],
                 RetNone)
    ELSE Ok(r.st, RetNone)

\* Variant of send_spi_command: the transfer is attempted whether or not a
\* device is connected.
MainViewModel_send_spi_command_unguarded(st, command_hex, s_cfg, s, read_size, read_data) ==
    IF ~FromHex(command_hex).ok THEN Ok(st, RetNone)
    ELSE SendWith(command_hex,
                  Backend_spi_transfer(st, FromHex(command_hex).bytes, s_cfg, s,
                                       read_size, read_data))

\* MainViewModel.send_spi_command(command_hex)
MainViewModel_send_spi_command(st, command_hex, s_cfg, s, read_size, read_data) ==
    IF ~st.vm.is_connected THEN Ok(st, RetNone)
    ELSE IF ~FromHex(command_hex).ok THEN Ok(st, RetNone)
    ELSE SendWith(command_hex,
                  Backend_spi_transfer(st, FromHex(command_hex).bytes, s_cfg, s,
                                       read_size, read_data))

\* Variant of select_history_item: the heading tells whether a device is
\* connected.
SelectWith_tells_connection(st, cmd_breakdown, rsp_breakdown) ==
    IF cmd_breakdown.exc /= NoExc THEN Raise(st, cmd_breakdown.exc)
    ELSE IF rsp_breakdown.exc /= NoExc THEN Raise(st, rsp_breakdown.exc)
    ELSE Ok([st EXCEPT !.vm.breakdown_text =
                 (IF st.vm.is_connected THEN "--- Command ---\n"
                  ELSE "--- Command (offline) ---\n")
                 \o cmd_breakdown.text
                 \o "\n\n--- Response ---\n" \o rsp_breakdown.text],
            RetNone)

\* MainViewModel.select_history_item(item), after both parse_hex_data calls
SelectWith(st, cmd_breakdown, rsp_breakdown) ==
    IF cmd_breakdown.exc /= NoExc THEN Raise(st, cmd_breakdown.exc)
    ELSE IF rsp_breakdown.exc /= NoExc THEN Raise(st, rsp_breakdown.exc)
    ELSE Ok([st EXCEPT !.vm.breakdown_text =
                 "--- Command ---\n" \o cmd_breakdown.text
                 \o "\n\n--- Response ---\n" \o rsp_breakdown.text],
            RetNone)

\* MainViewModel.select_history_item(item)
MainViewModel_select_history_item(st, item) ==
    SelectWith(st, parse_hex_data(item.command, TRUE), parse_hex_data(item.response, FALSE))

\* ------------------------------------------------------ the last operation
\* Every action leaves in `last` what it did (for the view model also the
\* backend methods it called, bcalls, and what it did to the backend instance,
\* swap): the operation, the objects it
\* was called on, whether the guard was closed (pre_closed) and had seen a
\* close() (pre_close_called) before the call, the arguments, the driver
\* calls it made and how it ended.
\* Arguments: a resource name, a primitive's name, the bytes to write (w), the
\* number of bytes to read (n), and the driver's answer to a read: the count
\* it reports (r) and the bytes it stores (data).
\* For the view model: the command text (hex), the history item and the value
\* simulation_mode was set to (flag).
NoArg ==
    [name |-> "", fn |-> "", w |-> <<>>, n |-> 0, r |-> 0, data |-> <<>>,
     hex |-> <<>>, item |-> HistoryEntry(<<>>, <<>>), flag |-> FALSE]

NoLast ==
    [op |-> "", obj |-> 0, cfg |-> 0, pre_closed |-> FALSE, pre_close_called |-> FALSE,
     arg |-> NoArg, calls |-> <<>>, bcalls |-> <<>>, swap |-> NoSwap,
     exc |-> NoExc, ret |-> RetNone]

\* The program state an operation starts from.
St0 ==
    [drv |-> drv, objs |-> objs, calls |-> <<>>, hh |-> hh, mock |-> mock, vm |-> vm,
     bcalls |-> <<>>, swap |-> NoSwap]

Outcome(op, o, c, arg, r) ==
    [op |-> op, obj |-> o, cfg |-> c,
     pre_closed |-> o \in DOMAIN objs /\ objs[o].closed,
     pre_close_called |-> o \in DOMAIN objs /\ objs[o].close_called,
     arg |-> arg, calls |-> r.st.calls, bcalls |-> r.st.bcalls, swap |-> r.st.swap,
     exc |-> r.exc, ret |-> r.ret]

Commit(op, o, c, arg, r) ==
    /\ drv' = r.st.drv
    /\ objs' = r.st.objs
    /\ hh' = r.st.hh
    /\ mock' = r.st.mock
    /\ vm' = r.st.vm
    /\ last' = Outcome(op, o, c, arg, r)

\* ------------------------------------------- a client of the wrapper
\* device = Ni845x(resource_name)
WOpen(name, s) ==
    /\ HasFreeSlot(objs, "dev")
    /\ Commit("Ni845x", 0, 0, [NoArg EXCEPT !.name = name], Ni845x_init(St0, name, s))
    /\ UNCHANGED <<dll_loaded, attached>>

\* device.create_spi_config() / device.create_i2c_config()
WCreateConfig(o, kind, s) ==
    /\ Live(objs, o) /\ objs[o].kind = "dev"
    /\ HasFreeSlot(objs, kind)
    /\ Commit("create_config", o, 0, [NoArg EXCEPT !.fn = ConfigOpenFunc(kind)],
              Ni845x_create_config(St0, kind, s))
    /\ UNCHANGED <<dll_loaded, attached>>

\* guard.close()
WClose(o, s) ==
    /\ Live(objs, o)
    /\ Commit("close", o, 0, NoArg, HandleManager_close(St0, o, s))
    /\ UNCHANGED <<dll_loaded, attached>>

\* Ni845x.__exit__: leaving `with Ni845x(...) as device:`
WExit(o, s) ==
    /\ Live(objs, o) /\ objs[o].kind = "dev"
    /\ Commit("__exit__", o, 0, NoArg, Ni845x_exit(St0, o, s))
    /\ UNCHANGED <<dll_loaded, attached>>

\* The client drops its last reference to the guard: __del__.
WDel(o, s) ==
    /\ Live(objs, o)
    /\ Commit("__del__", o, 0, NoArg,
              [st |-> HandleManager_del(St0, o, s), exc |-> NoExc, ret |-> RetNone])
    /\ UNCHANGED <<dll_loaded, attached>>

\* guard.handle
WHandle(o) ==
    /\ Live(objs, o)
    /\ Commit("handle", o, 0, NoArg, HandleManager_handle(St0, o))
    /\ UNCHANGED <<dll_loaded, attached>>

\* device.set_timeout(..), set_io_voltage_level(..), dio_*(..)
WSessionOp(o, fn, s, v) ==
    /\ Live(objs, o) /\ objs[o].kind = "dev"
    /\ Commit("session_op", o, 0, [NoArg EXCEPT !.fn = fn], Ni845x_session_op(St0, o, fn, s, v))
    /\ UNCHANGED <<dll_loaded, attached>>

\* spi_config.set_clock_rate(..) etc.
WSpiSet(c, fn, s) ==
    /\ Live(objs, c) /\ objs[c].kind = "spi"
    /\ Commit("spi_set", c, 0, [NoArg EXCEPT !.fn = fn], SpiConfiguration_set(St0, c, fn, s))
    /\ UNCHANGED <<dll_loaded, attached>>

\* device.spi_write_read(config, write_data)
WSpiWriteRead(o, c, w, s, r, data) ==
    /\ Live(objs, o) /\ objs[o].kind = "dev"
    /\ Live(objs, c) /\ objs[c].kind = "spi"
    /\ Commit("spi_write_read", o, c, [NoArg EXCEPT !.w = w, !.r = r, !.data = data],
              Ni845x_spi_write_read(St0, o, c, w, s, r, data))
    /\ UNCHANGED <<dll_loaded, attached>>

\* device.i2c_write(config, write_data)
WI2cWrite(o, c, s) ==
    /\ Live(objs, o) /\ objs[o].kind = "dev"
    /\ Live(objs, c) /\ objs[c].kind = "i2c"
    /\ Commit("i2c_write", o, c, NoArg, Ni845x_i2c_write(St0, o, c, s))
    /\ UNCHANGED <<dll_loaded, attached>>

\* device.i2c_read(config, num_bytes_to_read)
WI2cRead(o, c, n, s, r, data) ==
    /\ Live(objs, o) /\ objs[o].kind = "dev"
    /\ Live(objs, c) /\ objs[c].kind = "i2c"
    /\ Commit("i2c_read", o, c, [NoArg EXCEPT !.n = n, !.r = r, !.data = data],
              Ni845x_i2c_read(St0, o, c, n, s, r, data))
    /\ UNCHANGED <<dll_loaded, attached>>

\* Ni845x.find_devices()
WFindDevices(failAt, code) ==
    /\ Commit("find_devices", 0, 0, NoArg, Ni845x_find_devices(St0, Statuses(failAt, code)))
    /\ UNCHANGED <<dll_loaded, attached>>

\* The client's objects: one session, one SPI and one I2C configuration.
ClientSlots == {1, SpiSlot, I2cSlot}

\* --- guards: their life from construction to destruction
InitGuard ==
    /\ dll_loaded \in BOOLEAN
    /\ attached = FixtureDevices
    /\ drv = FreeTable(MaxHandles)
    /\ objs = NoObjs(ClientSlots)
    /\ hh = NoHandler
    /\ mock = MockHardwareHandler_init
    /\ vm = NoViewModel
    /\ last = NoLast

NextGuard ==
    \/ \E name \in DeviceNames, s \in DriverStatus : WOpen(name, s)
    \/ \E o \in ClientSlots, kind \in {"spi", "i2c"}, s \in DriverStatus : WCreateConfig(o, kind, s)
    \/ \E o \in ClientSlots, s \in DriverStatus : WClose(o, s)
    \/ \E o \in ClientSlots, s \in DriverStatus : WExit(o, s)
    \/ \E o \in ClientSlots, s \in DriverStatus : WDel(o, s)
    \/ \E o \in ClientSlots : WHandle(o)

SpecGuard == InitGuard /\ [][NextGuard]_vars

\* --- operations on sessions and configurations
NextOps ==
    \/ \E name \in DeviceNames, s \in DriverStatus : WOpen(name, s)
    \/ \E o \in ClientSlots, kind \in {"spi", "i2c"}, s \in DriverStatus : WCreateConfig(o, kind, s)
    \/ \E o \in ClientSlots, s \in DriverStatus : WClose(o, s)
    \/ \E o \in ClientSlots, fn \in SessionFns, s \in DriverStatus, v \in ByteVals :
          WSessionOp(o, fn, s, v)
    \/ \E c \in ClientSlots, fn \in SpiSetters, s \in DriverStatus : WSpiSet(c, fn, s)
    \/ \E o, c \in ClientSlots, w \in SeqsUpTo(ByteVals, MaxLen), s \in DriverStatus,
          r \in 0..(MaxLen + 1), data \in SeqsUpTo(ByteVals, MaxLen + 1) :
          WSpiWriteRead(o, c, w, s, r, data)
    \/ \E o, c \in ClientSlots, s \in DriverStatus : WI2cWrite(o, c, s)
    \/ \E o, c \in ClientSlots, n \in 0..MaxLen, s \in DriverStatus, r \in 0..(MaxLen + 1),
          data \in SeqsUpTo(ByteVals, MaxLen + 1) :
          WI2cRead(o, c, n, s, r, data)

SpecOps == InitGuard /\ [][NextOps]_vars

\* --- enumeration
InitFind ==
    /\ dll_loaded \in BOOLEAN
    /\ attached \in Enumerations
    /\ drv = FreeTable(MaxHandles)
    /\ objs = NoObjs(ClientSlots)
    /\ hh = NoHandler
    /\ mock = MockHardwareHandler_init
    /\ vm = NoViewModel
    /\ last = NoLast

NextFind ==
    \/ \E failAt \in 0..MaxCalls, code \in ErrorStatus : WFindDevices(failAt, code)
    \/ \E name \in DeviceNames, s \in DriverStatus : WOpen(name, s)
    \/ \E o \in ClientSlots, s \in DriverStatus : WClose(o, s)

SpecFind == InitFind /\ [][NextFind]_vars

\* ------------------------------------------------ a caller of the facade
HFindDevices(failAt, code) ==
    /\ Commit("find_devices", hh.device, hh.spi_config, NoArg,
              HardwareHandler_find_devices(St0, Statuses(failAt, code)))
    /\ UNCHANGED <<dll_loaded, attached>>

HOpenDevice(name, s, s_del) ==
    /\ Commit("open_device", hh.device, hh.spi_config, [NoArg EXCEPT !.name = name],
              HardwareHandler_open_device(St0, name, s, s_del))
    /\ UNCHANGED <<dll_loaded, attached>>

HCloseDevice(s) ==
    /\ Commit("close_device", hh.device, hh.spi_config, NoArg,
              HardwareHandler_close_device(St0, s))
    /\ UNCHANGED <<dll_loaded, attached>>

HSpiTransfer(w, s_cfg, s, r, data) ==
    /\ Commit("spi_transfer", hh.device, hh.spi_config,
              [NoArg EXCEPT !.w = w, !.r = r, !.data = data],
              HardwareHandler_spi_transfer(St0, w, s_cfg, s, r, data))
    /\ UNCHANGED <<dll_loaded, attached>>

\* The facade's objects: the session it holds, the one that replaces it, and
\* its SPI configuration.
HandlerSlots == DevSlots \cup {SpiSlot}

InitHandler ==
    /\ dll_loaded \in BOOLEAN
    /\ attached \in {<<>>, FixtureDevices}
    /\ drv = FreeTable(MaxHandles + 1)
    /\ objs = NoObjs(HandlerSlots)
    /\ hh = NoHandler
    /\ mock = MockHardwareHandler_init
    /\ vm = NoViewModel
    /\ last = NoLast

NextHandler ==
    \/ \E failAt \in 0..MaxCalls, code \in ErrorStatus : HFindDevices(failAt, code)
    \/ \E name \in DeviceNames, s, s_del \in DriverStatus : HOpenDevice(name, s, s_del)
    \/ \E s \in DriverStatus : HCloseDevice(s)
    \/ \E w \in SeqsUpTo(ByteVals, MaxLen), s_cfg, s \in DriverStatus, r \in 0..(MaxLen + 1),
          data \in SeqsUpTo(ByteVals, MaxLen + 1) :
          HSpiTransfer(w, s_cfg, s, r, data)

SpecHandler == InitHandler /\ [][NextHandler]_vars

\* ------------------------------------------- a caller of the mock facade
MFindDevices ==
    /\ Commit("Mock.find_devices", 0, 0, NoArg, MockHardwareHandler_find_devices(St0))
    /\ UNCHANGED <<dll_loaded, attached>>

MOpenDevice(name) ==
    /\ Commit("Mock.open_device", 0, 0, [NoArg EXCEPT !.name = name],
              MockHardwareHandler_open_device(St0, name))
    /\ UNCHANGED <<dll_loaded, attached>>

MCloseDevice ==
    /\ Commit("Mock.close_device", 0, 0, NoArg, MockHardwareHandler_close_device(St0))
    /\ UNCHANGED <<dll_loaded, attached>>

MSpiTransfer(w) ==
    /\ Commit("Mock.spi_transfer", 0, 0, [NoArg EXCEPT !.w = w],
              MockHardwareHandler_spi_transfer(St0, w))
    /\ UNCHANGED <<dll_loaded, attached>>

InitMock ==
    /\ dll_loaded \in BOOLEAN
    /\ attached = <<>>
    /\ drv = FreeTable(MaxHandles)
    /\ objs = NoObjs({})
    /\ hh = NoHandler
    /\ mock = MockHardwareHandler_init
    /\ vm = NoViewModel
    /\ last = NoLast

NextMock ==
    \/ MFindDevices
    \/ \E name \in DeviceNames \cup {SimDevice} : MOpenDevice(name)
    \/ MCloseDevice
    \/ \E w \in SeqsUpTo(MockByteVals, MaxMockLen) : MSpiTransfer(w)

SpecMock == InitMock /\ [][NextMock]_vars

\* ------------------------------------------------ a user of the view model
\* Command texts: lower-case hex followed by a space, an odd number of
\* digits, a character that is no hex digit.
VCommands ==
    {<<"c", "7", " ">>, <<"A", "B", "C">>, <<"Z", "Z">>}

\* What the driver answers under the view model: success or refusal, an
\* enumeration that succeeds or fails at its first call, a read that stores
\* 0xFF bytes; the release issued for a collected object succeeds.
ViewStatus == {0, DrvRefused}
ViewFailAt == {0, 1}

\* view_model = MainViewModel()
VInit(failAt, code) ==
    /\ ~vm.constructed
    /\ Commit("MainViewModel", 0, 0, NoArg, MainViewModel_init(St0, Statuses(failAt, code)))
    /\ UNCHANGED <<dll_loaded, attached>>

VRefresh(failAt, code) ==
    /\ vm.constructed
    /\ Commit("refresh_devices", hh.device, hh.spi_config, NoArg,
              MainViewModel_refresh_devices(St0, Statuses(failAt, code)))
    /\ UNCHANGED <<dll_loaded, attached>>

\* The combobox bound to selected_device: the user picks a listed device.
VChooseDevice(name) ==
    /\ vm.constructed /\ ~vm.is_connected /\ name \in Range(vm.device_list)
    /\ Commit("selected_device.set", hh.device, hh.spi_config, [NoArg EXCEPT !.name = name],
              Ok([St0 EXCEPT !.vm.selected_device = name], RetNone))
    /\ UNCHANGED <<dll_loaded, attached>>

VConnect(s, s_del) ==
    /\ vm.constructed
    /\ Commit("connect_device", hh.device, hh.spi_config, NoArg,
              MainViewModel_connect_device(St0, s, s_del))
    /\ UNCHANGED <<dll_loaded, attached>>

VDisconnect(s) ==
    /\ vm.constructed
    /\ Commit("disconnect_device", hh.device, hh.spi_config, NoArg,
              MainViewModel_disconnect_device(St0, s))
    /\ UNCHANGED <<dll_loaded, attached>>

VSend(command_hex, s_cfg, s, r, data) ==
    /\ vm.constructed /\ Len(vm.sent) < MaxHistory
    /\ Commit("send_spi_command", hh.device, hh.spi_config,
              [NoArg EXCEPT !.hex = command_hex, !.r = r, !.data = data],
              MainViewModel_send_spi_command(St0, command_hex, s_cfg, s, r, data))
    /\ UNCHANGED <<dll_loaded, attached>>

VSelect(item) ==
    /\ vm.constructed
    /\ Commit("select_history_item", hh.device, hh.spi_config, [NoArg EXCEPT !.item = item],
              MainViewModel_select_history_item(St0, item))
    /\ UNCHANGED <<dll_loaded, attached>>

\* simulation_mode.set(v) by the caller, then toggle_simulation_mode()
VToggle(v, s_close, s_del, failAt, code) ==
    /\ vm.constructed
    /\ Commit("toggle_simulation_mode", hh.device, hh.spi_config, [NoArg EXCEPT !.flag = v],
              MainViewModel_toggle_simulation_mode([St0 EXCEPT !.vm.simulation_mode = v],
                                                   s_close, s_del, Statuses(failAt, code)))
    /\ UNCHANGED <<dll_loaded, attached>>

InitView ==
    /\ dll_loaded \in BOOLEAN
    /\ attached = FixtureDevices
    /\ drv = FreeTable(MaxHandles + 1)
    /\ objs = NoObjs(HandlerSlots)
    /\ hh = NoHandler
    /\ mock = MockHardwareHandler_init
    /\ vm \in {[NoViewModel EXCEPT !.variables = c] : c \in {"tkinter", "MockCtkVar"}}
    /\ last = NoLast

NextView ==
    \/ \E failAt \in ViewFailAt : VInit(failAt, DrvRefused)
    \/ \E failAt \in ViewFailAt : VRefresh(failAt, DrvRefused)
    \/ \E name \in DeviceNames \cup {SimDevice} : VChooseDevice(name)
    \/ \E s \in ViewStatus : VConnect(s, kNi845xErrorNoError)
    \/ \E s \in ViewStatus : VDisconnect(s)
    \/ \E command_hex \in VCommands, s_cfg, s \in ViewStatus, r \in 0..MaxLen :
          VSend(command_hex, s_cfg, s, r, <<255, 255>>)
    \/ \E item \in Range(vm.command_history) \cup {HistoryEntry(<<"A", "B", "C">>, <<>>)} :
          VSelect(item)
    \/ \E v \in BOOLEAN, s_close \in ViewStatus, failAt \in ViewFailAt :
          VToggle(v, s_close, kNi845xErrorNoError, failAt, DrvRefused)

SpecView == InitView /\ [][NextView]_vars

\* ------------------------------------------------ a caller of the parser
\* The texts given to parse_hex_data: every text of up to MaxText characters
\* over digits of the three opcodes in both cases, other digits, the space,
\* the tab and the vertical tab (0x0B, the last character of the set), and
\* the texts of three bytes over the digits 0 and 1.
ParseTexts ==
    SeqsUpTo({"0", "1", "6", "c", "C", "7", " ", "\t", ""}, MaxText)
        \cup {s \in SeqsUpTo({"0", "1"}, MaxText + 2) : Len(s) = MaxText + 2}

\* parse_hex_data(hex_string, is_command) on the text and the direction the
\* initial state holds; the breakdown (or the error) is left in last.ret.
PParse ==
    /\ last.op = ""
    /\ Commit("parse_hex_data", 0, 0, last.arg,
              [st |-> St0, exc |-> parse_hex_data(last.arg.hex, last.arg.flag).exc,
               ret |-> parse_hex_data(last.arg.hex, last.arg.flag)])
    /\ UNCHANGED <<dll_loaded, attached>>

InitParse ==
    /\ dll_loaded = FALSE
    /\ attached = <<>>
    /\ drv = FreeTable(MaxHandles)
    /\ objs = NoObjs(HandlerSlots)
    /\ hh = NoHandler
    /\ mock = MockHardwareHandler_init
    /\ vm = NoViewModel
    /\ \E hex_string \in ParseTexts, is_command \in BOOLEAN :
          last = [NoLast EXCEPT !.arg.hex = hex_string, !.arg.flag = is_command]

NextParse == PParse

SpecParse == InitParse /\ [][NextParse]_vars

\* =====================================================================
\* Properties of the handle guard (SpecGuard)
\* =====================================================================
ClosingOps == {"close", "__exit__", "__del__"}

\* C1: once a close() of a guard has succeeded, every later close() of the
\* same guard (directly, through __exit__ or through __del__) calls no driver
\* primitive and raises nothing; no guard's release primitive succeeds more
\* than once.
C1_CloseIdempotent ==
    /\ (last.op \in ClosingOps /\ last.pre_closed)
          => (last.calls = <<>> /\ last.exc = NoExc)
    /\ \A o \in DOMAIN objs : objs[o].ok_releases <= 1

\* A second close() of a guard whose first close() released the handle.
C1_Witness ==
    /\ last.op = "close" /\ last.pre_closed
    /\ objs[last.obj].closed /\ objs[last.obj].ok_releases = 1
    /\ last.calls = <<>>

\* C2: when the release primitive of a close() returns a nonzero status, the
\* guard is Closed afterwards (so that a second close() would call nothing).
C2_ClosedAfterFailedRelease ==
    (last.op = "close" /\ last.calls /= <<>> /\ last.calls[1].status /= 0)
        => objs[last.obj].closed

\* C3: reading `handle` of a guard on which close() has been called raises
\* the closed-handle error.
C3_HandleFailsAfterClose ==
    (last.op = "handle" /\ last.pre_close_called)
        => (last.exc.kind = "Ni845xError" /\ last.exc.code = WrapperErrorCode)

\* =====================================================================
\* Properties of HardwareHandler (SpecHandler)
\* =====================================================================

\* C4: no spi_transfer returns bytes through a configuration that was created
\* under a session which has been closed since.
C4_NoTransferOnStaleConfig ==
    ~(last.op = "spi_transfer" /\ last.ret.kind = "bytes" /\ hh.cfg_stale)

\* C5: when close_device() of a connected handler returns, the session's
\* device handle and every configuration handle are released.
C5_CloseReleasesConfigs ==
    (last.op = "close_device" /\ last.obj /= 0 /\ last.exc = NoExc)
        => /\ \E i \in DOMAIN last.calls :
                 /\ last.calls[i].fn = "ni845xClose" /\ last.calls[i].status = 0
                 /\ ~IsOpen(drv, last.calls[i].h, "dev")
           /\ OpenCount(drv, "spi") = 0

\* C6: at most one device handle is open at any time: in every state, and at
\* every driver call inside an operation.
C6_OneDeviceHandle ==
    /\ OpenCount(drv, "dev") <= 1
    /\ \A i \in DOMAIN last.calls : last.calls[i].devOpen <= 1

\* =====================================================================
\* Properties of Ni845x.find_devices (SpecFind)
\* =====================================================================
FindNextCount(calls) ==
    Cardinality({i \in DOMAIN calls : calls[i].fn = "ni845xFindDeviceNext"})

AllSucceeded(calls) == \A i \in DOMAIN calls : calls[i].status = 0

\* C7: when find_devices() returns after ni845xFindDevice succeeded, it has
\* released the enumeration handle with ni845xCloseFindDeviceHandle.
C7_FindHandleReleased ==
    (/\ last.op = "find_devices" /\ last.exc = NoExc
     /\ last.calls /= <<>> /\ last.calls[1].status = 0)
        => /\ \E i \in DOMAIN last.calls :
                 /\ last.calls[i].fn = "ni845xCloseFindDeviceHandle"
                 /\ last.calls[i].h = last.calls[1].h
                 /\ last.calls[i].status = 0
           /\ ~IsOpen(drv, last.calls[1].h, "find")

\* C8: find_devices() returns the empty list without a driver call when the
\* library is not loaded, and the empty list when the driver reports no
\* device; it never issues more than count - 1 ni845xFindDeviceNext calls;
\* when every driver call succeeds it issues exactly count - 1 of them and
\* returns the count identifiers in the driver's order.
C8_FindDevicesResult ==
    last.op = "find_devices" =>
        /\ ~dll_loaded => (last.calls = <<>> /\ last.exc = NoExc
                           /\ last.ret = RetNames(<<>>))
        /\ (dll_loaded /\ last.calls /= <<>> /\ last.calls[1].status = 0)
              => /\ attached = <<>> => (last.exc = NoExc /\ last.ret = RetNames(<<>>))
                 /\ attached /= <<>> => FindNextCount(last.calls) <= Len(attached) - 1
        /\ (dll_loaded /\ last.calls /= <<>> /\ AllSucceeded(last.calls))
              => /\ last.exc = NoExc
                 /\ last.ret = RetNames(attached)
                 /\ attached /= <<>> => FindNextCount(last.calls) = Len(attached) - 1

\* An enumeration of two devices whose order is not the sorted one.
C8_Witness ==
    /\ last.op = "find_devices" /\ last.exc = NoExc
    /\ Len(attached) = 2 /\ attached[1] = "USB-8451-1" /\ attached[2] = "USB-8451-0"
    /\ last.ret = RetNames(attached)
    /\ FindNextCount(last.calls) = 1

\* =====================================================================
\* Properties of the session operations (SpecOps)
\* =====================================================================

\* C9: a successful spi_write_read of w with the driver reporting r bytes
\* returns the first min(r, len(w)) bytes of a zero-filled buffer of len(w)
\* bytes in which the driver stored its data: never more than len(w) bytes.
C9_ReadTruncated ==
    (last.op = "spi_write_read" /\ last.exc = NoExc) =>
        /\ last.ret.kind = "bytes"
        /\ Len(last.ret.bytes) = Min(last.arg.r, Len(last.arg.w))
        /\ Len(last.ret.bytes) <= Len(last.arg.w)
        /\ \A i \in 1..Len(last.ret.bytes) :
              last.ret.bytes[i] = IF i <= Len(last.arg.data) THEN last.arg.data[i] ELSE 0

\* The driver reports more bytes than were written.
C9_Witness ==
    /\ last.op = "spi_write_read" /\ last.exc = NoExc
    /\ Len(last.arg.w) = 1 /\ last.arg.r = 2 /\ Len(last.arg.data) = 2
    /\ last.ret = RetBytes(<<255>>)

\* C10: an operation of the wrapper calls its driver primitive once; a
\* nonzero status makes it raise Ni845xError with that status and the
\* primitive's name, a zero status makes it raise nothing.
C10_StatusRaised ==
    last.calls /= <<>> =>
        /\ Len(last.calls) = 1
        /\ last.calls[1].status /= 0
              => last.exc = [kind |-> "Ni845xError", code |-> last.calls[1].status,
                             fn |-> last.calls[1].fn]
        /\ last.calls[1].status = 0 => last.exc = NoExc

\* A session operation whose primitive returned a positive status.
C10_Witness ==
    /\ last.op = "session_op" /\ Len(last.calls) = 1
    /\ last.calls[1].status > 0
    /\ last.exc.kind = "Ni845xError" /\ last.exc.code = last.calls[1].status

\* =====================================================================
\* Error conversion of HardwareHandler (SpecHandler)
\* =====================================================================
FacadeOps == {"find_devices", "open_device", "close_device", "spi_transfer"}

\* C11: with the library loaded, no operation of HardwareHandler (spi_transfer
\* being called with a device open) ends with an exception: a nonzero driver
\* status becomes the failure result.
C11_FacadeNeverRaises ==
    (/\ last.op \in FacadeOps /\ dll_loaded
     /\ last.op = "spi_transfer" => last.obj /= 0)
        => last.exc = NoExc

\* C12: with the library not loaded, open_device returns False for every
\* resource name, holds no device afterwards and lets no exception escape.
C12_OpenFailsWithoutLibrary ==
    (last.op = "open_device" /\ ~dll_loaded)
        => /\ last.exc = NoExc
           /\ last.ret = RetBool(FALSE)
           /\ hh.device = 0

\* =====================================================================
\* Properties of MockHardwareHandler (SpecMock)
\* =====================================================================

\* C15: a simulated transfer of b returns as many bytes as b has, the i-th
\* being the i-th from the end of b; reversing the result gives b.
C15_MockReverses ==
    (last.op = "Mock.spi_transfer" /\ last.exc = NoExc) =>
        /\ last.ret.kind = "bytes"
        /\ Len(last.ret.bytes) = Len(last.arg.w)
        /\ \A i \in 1..Len(last.arg.w) :
              last.ret.bytes[i] = last.arg.w[Len(last.arg.w) + 1 - i]
        /\ Reverse(last.ret.bytes) = last.arg.w

\* The transfer of 0xDEADBEEF returns 0xEFBEADDE.
C15_Witness ==
    /\ last.op = "Mock.spi_transfer" /\ last.exc = NoExc
    /\ last.arg.w = <<222, 173, 190, 239>>
    /\ last.ret = RetBytes(<<239, 190, 173, 222>>)

\* C16: a simulated transfer succeeds exactly when the most recent of the
\* open_device / close_device calls was open_device; otherwise (none yet, or
\* close_device) it raises the connection error and returns no data.
C16_MockTransferNeedsOpen ==
    last.op = "Mock.spi_transfer" =>
        IF mock.recent = "open_device"
        THEN last.exc = NoExc /\ last.ret.kind = "bytes"
        ELSE last.exc = ConnectionError /\ last.ret = RetNone

\* A transfer refused after open_device, close_device.
C16_Witness ==
    /\ last.op = "Mock.spi_transfer" /\ mock.recent = "close_device"
    /\ last.exc = ConnectionError

\* C17: the simulated find_devices returns the one synthetic name, and the
\* simulated open_device returns True and leaves the open flag set, whether
\* or not a device was open before.
C17_MockEnumerateThenOpen ==
    /\ last.op = "Mock.find_devices" => last.ret = RetNames(<<SimDevice>>)
    /\ last.op = "Mock.open_device" => (last.exc = NoExc /\ last.ret = RetBool(TRUE) /\ mock.is_open)

\* open_device of the synthetic name.
C17_Witness ==
    /\ last.op = "Mock.open_device" /\ last.arg.name = SimDevice
    /\ last.ret = RetBool(TRUE) /\ mock.is_open

\* =====================================================================
\* Properties of MainViewModel (SpecView)
\* =====================================================================

\* C13: when the library is not loaded, the view model is constructed in
\* simulation mode with the simulated backend and keeps both through every
\* toggle_simulation_mode; the real backend is active only when the library
\* is loaded, and without the library no driver primitive is ever called.
C13_SimulatedWithoutLibrary ==
    vm.constructed =>
        /\ ~dll_loaded => (vm.simulation_mode /\ vm.backend = "mock" /\ last.calls = <<>>)
        /\ vm.backend = "real" => dll_loaded

\* Without the library, a toggle that asked for the real backend.
C13_Witness ==
    /\ ~dll_loaded /\ last.op = "toggle_simulation_mode" /\ ~last.arg.flag
    /\ vm.simulation_mode /\ vm.backend = "mock"

\* C14: when toggle_simulation_mode replaces the backend instance, the
\* instance it replaces holds no open device at that moment and the connected
\* flag is false afterwards; the backend that is not active holds no device.
C14_ReplacedWhileDisconnected ==
    /\ (last.op = "toggle_simulation_mode" /\ last.swap.replaced)
          => (~last.swap.dropped_open /\ ~vm.is_connected)
    /\ vm.backend = "mock" => hh.device = 0
    /\ vm.backend = "real" => ~mock.is_open
    /\ \A o \in DevSlots : Live(objs, o) => o = hh.device

\* A toggle of a connected view model that replaced the backend.
C14_Witness ==
    /\ last.op = "toggle_simulation_mode" /\ last.swap.replaced
    /\ \E i \in DOMAIN last.bcalls : last.bcalls[i] = "close_device"
    /\ ~vm.is_connected

\* C18: the history has one entry for each spi_transfer of the backend that
\* returned bytes, in call order; entry i holds the command text of that call
\* as it was passed and the upper-case hex of the bytes returned.
C18_HistoryRecordsTransfers ==
    /\ Len(vm.command_history) = Len(vm.sent)
    /\ \A i \in DOMAIN vm.command_history :
          vm.command_history[i] = HistoryEntry(vm.sent[i].command, HexUpper(vm.sent[i].bytes))
    /\ (/\ last.op = "send_spi_command" /\ last.exc = NoExc /\ vm.backend = "mock"
        /\ last.bcalls = <<"spi_transfer">>)
          => vm.command_history[Len(vm.command_history)] =
                 HistoryEntry(last.arg.hex, HexUpper(Reverse(FromHex(last.arg.hex).bytes)))

\* Two sends with different responses, the second on the simulated backend.
C18_Witness ==
    /\ last.op = "send_spi_command" /\ Len(vm.command_history) = 2
    /\ vm.command_history[1].response = <<>>
    /\ vm.command_history[2] = HistoryEntry(<<"c", "7", " ">>, <<"C", "7">>)

IsPrefix(s, t) == Len(s) <= Len(t) /\ SubSeq(t, 1, Len(s)) = s

\* C19: no operation of the view model removes or changes an entry of the
\* history: the history before a step is a prefix of the history after it.
C19_HistoryAppendOnly ==
    [][IsPrefix(vm.command_history, vm'.command_history)]_vars

\* A backend replacement with two entries in the history.
C19_Witness ==
    /\ last.op = "toggle_simulation_mode" /\ last.swap.replaced
    /\ Len(vm.command_history) = 2

\* A command text is malformed: odd length, or a character that is no
\* hexadecimal digit.
Malformed(s) == Len(s) % 2 = 1 \/ \E i \in DOMAIN s : HexVal(s[i]) < 0

\* C20: send_spi_command of a malformed text on a connected view model calls
\* no method of the backend.
C20_MalformedRejected ==
    (last.op = "send_spi_command" /\ vm.is_connected /\ Malformed(last.arg.hex))
        => last.bcalls = <<>>

\* =====================================================================
\* Failed operations of MainViewModel (SpecView)
\* =====================================================================

\* What the user sees of the view model.
UserVisible(v) ==
    <<v.command_history, v.is_connected, v.device_list, v.selected_device, v.breakdown_text>>

\* The backend's spi_transfer reports failure: it returns None or raises.
TransferFailed(r) == Raised(r) \/ r.ret.kind = "None"

\* C21: a send_spi_command whose spi_transfer fails (returns None or raises)
\* appends no history entry and leaves the connected flag, the device list,
\* the selected device and the breakdown text as they were.
C21_FailedTransferKeepsState ==
    [][\A command_hex \in VCommands, s_cfg \in ViewStatus, s \in ViewStatus, r \in 0..MaxLen :
          (/\ last'.op = "send_spi_command" /\ last'.arg.hex = command_hex
           /\ vm.is_connected /\ FromHex(command_hex).ok
           /\ TransferFailed(Backend_spi_transfer(St0, FromHex(command_hex).bytes, s_cfg, s,
                                                  r, <<255, 255>>))
           /\ VSend(command_hex, s_cfg, s, r, <<255, 255>>))
              => UserVisible(vm') = UserVisible(vm)]_vars

\* A transfer the driver refused, after one that succeeded.
C21_Witness ==
    /\ last.op = "send_spi_command" /\ last.bcalls = <<"spi_transfer">> /\ last.exc = NoExc
    /\ \E i \in DOMAIN last.calls :
          last.calls[i].fn = "ni845xSpiWriteRead" /\ last.calls[i].status /= 0
    /\ vm.is_connected /\ Len(vm.command_history) = 1

\* The backend's open_device reports failure: it returns False or raises.
OpenFailed(r) == Raised(r) \/ ~r.ret.b

\* C22: a connect_device whose open_device fails leaves the connected flag,
\* the device the backend holds, the history, the device list and the
\* selection as they were.
C22_FailedOpenKeepsState ==
    [][\A s \in ViewStatus :
          (/\ last'.op = "connect_device" /\ vm.selected_device /= ""
           /\ OpenFailed(Backend_open_device(St0, vm.selected_device, s, kNi845xErrorNoError))
           /\ VConnect(s, kNi845xErrorNoError))
              => /\ vm'.is_connected = vm.is_connected
                 /\ hh'.device = hh.device /\ mock'.is_open = mock.is_open
                 /\ vm'.command_history = vm.command_history
                 /\ vm'.device_list = vm.device_list
                 /\ vm'.selected_device = vm.selected_device]_vars

\* =====================================================================
\* The device list of MainViewModel (SpecView)
\* =====================================================================

\* What find_devices of the active backend returned in the last operation:
\* the simulated backend its one device, the real backend the attached
\* devices in the driver's order, or nothing when a driver call failed.
FoundDevices ==
    IF vm.backend = "mock" THEN <<SimDevice>>
    ELSE IF AllSucceeded(last.calls) THEN attached ELSE <<>>

\* C23: after the construction of the view model and after refresh_devices,
\* find_devices of the backend was called exactly once, the device list is
\* the list it returned and the selected device is the first of the list, or
\* the empty string when the list is empty.
C23_DeviceListFollowsBackend ==
    last.op \in {"MainViewModel", "refresh_devices"} =>
        /\ last.exc = NoExc
        /\ last.bcalls = <<"find_devices">>
        /\ vm.device_list = FoundDevices
        /\ vm.selected_device = (IF vm.device_list = <<>> THEN "" ELSE vm.device_list[1])

\* A refresh on the real backend whose enumeration failed: the list and the
\* selection are emptied.
C23_Witness ==
    /\ last.op = "refresh_devices" /\ vm.backend = "real"
    /\ last.calls /= <<>> /\ ~AllSucceeded(last.calls)
    /\ vm.device_list = <<>> /\ vm.selected_device = ""

\* =====================================================================
\* Properties of parse_hex_data (SpecParse)
\* =====================================================================

\* A text of hexadecimal digits only, of even length.
EvenHex(s) == Len(s) % 2 = 0 /\ \A i \in DOMAIN s : HexVal(s[i]) >= 0

\* The number of bytes in the fields a breakdown emitted.
RECURSIVE Consumed(_)
Consumed(lines) == IF lines = <<>> THEN 0 ELSE lines[1].n + Consumed(Tail(lines))

\* C24: for every even-length text of hex digits and each direction,
\* parse_hex_data raises nothing, the fields it emits hold at most as many
\* bytes as the text encodes, and the breakdown has an 'Unparsed Data' entry
\* if and only if the emitted fields hold fewer bytes than the text encodes.
C24_UnparsedIffLeftOver ==
    (last.op = "parse_hex_data" /\ EvenHex(last.arg.hex)) =>
        /\ last.exc = NoExc
        /\ Consumed(last.ret.lines) <= Len(last.arg.hex) \div 2
        /\ (last.ret.unparsed /= <<>>) <=> (Consumed(last.ret.lines) < Len(last.arg.hex) \div 2)

\* The field list of the definition named `name` for a direction.
FieldMapOf(name, is_command) ==
    LET key == CHOOSE k \in DOMAIN PROTOCOL_DEFINITIONS : PROTOCOL_DEFINITIONS[k].name = name
    IN IF is_command THEN PROTOCOL_DEFINITIONS[key].fields
       ELSE PROTOCOL_DEFINITIONS[key].response

\* The number of bytes in the first k emitted fields.
ConsumedBefore(lines, k) == Consumed(SubSeq(lines, 1, k - 1))

\* C25: when the selected definition has fields for the direction, the
\* emitted fields are the first fields of the definition in its order, each
\* holds the bytes that follow those of the fields before it (as many as the
\* field declares, all that remain for a rest-of-data field), and a field is
\* left out only when no byte remains for it.
C25_FieldsWalkTheBuffer ==
    (last.op = "parse_hex_data" /\ last.exc = NoExc /\ last.ret.kind = "fields") =>
        LET lines == last.ret.lines
            data == FromHex(last.arg.hex).bytes
            field_map == FieldMapOf(last.ret.name, last.arg.flag)
        IN /\ Len(lines) <= Len(field_map)
           /\ \A k \in DOMAIN lines :
                 /\ lines[k].name = field_map[k].name
                 /\ lines[k].n >= 1
                 /\ lines[k].n = IF field_map[k].len = RestOfData
                                 THEN Len(data) - ConsumedBefore(lines, k)
                                 ELSE field_map[k].len
                 /\ ConsumedBefore(lines, k) + lines[k].n <= Len(data)
                 /\ lines[k].hex = HexUpper(SubSeq(data, ConsumedBefore(lines, k) + 1,
                                                   ConsumedBefore(lines, k) + lines[k].n))
           /\ Consumed(lines) <= Len(data)
           /\ Len(lines) < Len(field_map) => Consumed(lines) = Len(data)

\* Command "0100": Command (1B) 0x01, then Dummy Byte (1B) 0x00.
C25_Witness ==
    /\ last.op = "parse_hex_data" /\ last.arg.hex = <<"0", "1", "0", "0">> /\ last.arg.flag
    /\ last.ret.lines = <<FieldLine("Command", <<1>>), FieldLine("Dummy Byte", <<0>>)>>
    /\ last.ret.unparsed = <<>>

\* The key of the table for the first byte of a buffer: its two upper-case
\* hex digits.
OpcodeKey(data) == Text(HexUpper(<<data[1]>>))

\* C26: for a text that parse_hex_data accepts and that encodes at least one
\* byte, the definition selected is
\* the table's entry for the first byte of the buffer, whatever the case of
\* the text's letters, and the default definition when the table has no
\* entry for it; under the default definition the breakdown is one Data
\* field holding the whole buffer, with no unparsed data.
C26_DefinitionByFirstByte ==
    (/\ last.op = "parse_hex_data" /\ last.exc = NoExc
     /\ FromHex(last.arg.hex).ok /\ FromHex(last.arg.hex).bytes /= <<>>) =>
        LET data == FromHex(last.arg.hex).bytes
            known == OpcodeKey(data) \in DOMAIN PROTOCOL_DEFINITIONS \ {"default"}
        IN /\ known => last.ret.name = PROTOCOL_DEFINITIONS[OpcodeKey(data)].name
           /\ ~known =>
                 /\ last.ret.name = PROTOCOL_DEFINITIONS["default"].name
                 /\ last.ret.lines = <<FieldLine("Data", data)>>
                 /\ last.ret.unparsed = <<>>

\* C27: when the definition selected for the text has no fields for the
\* direction (the response of Write Enable, 06, and of Chip Erase, C7), then
\* for every text that decodes parse_hex_data raises nothing and returns a
\* breakdown without fields: the definition's name and the note that no
\* response fields are defined.
C27_NoFieldsNoError ==
    (/\ last.op = "parse_hex_data" /\ ~last.arg.flag
     /\ FromHex(last.arg.hex).ok /\ Len(last.arg.hex) >= 2
     /\ Text(Upper(SubSeq(last.arg.hex, 1, 2))) \in {"06", "C7"}) =>
        /\ last.exc = NoExc
        /\ last.ret.kind = "nofields"
        /\ last.ret.lines = <<>> /\ last.ret.unparsed = <<>>
        /\ last.ret.text =
               PROTOCOL_DEFINITIONS[Text(Upper(SubSeq(last.arg.hex, 1, 2)))].name
               \o " (Response)\n - No response fields defined."

\* The response "c700": Chip Erase in lower case, followed by one more byte.
C27_Witness ==
    /\ last.op = "parse_hex_data" /\ ~last.arg.flag
    /\ last.arg.hex = <<"c", "7", "0", "0">>
    /\ last.exc = NoExc /\ last.ret.lines = <<>>
    /\ last.ret.text = "Chip Erase (Response)\n - No response fields defined."

\* =====================================================================
\* Decoding in MainViewModel (SpecView)
\* =====================================================================

\* C28: select_history_item changes nothing but the breakdown text (the
\* history, the connected flag, the device list, the selection, the backend
\* and the driver stay as they are, and no backend method is called), and
\* the text it sets is determined by the item alone: the breakdowns of the
\* item's command and response, the same in every state.
C28_DecodingPure ==
    [][last'.op = "select_history_item" =>
          /\ vm' = [vm EXCEPT !.breakdown_text = vm'.breakdown_text]
          /\ hh' = hh /\ mock' = mock /\ drv' = drv /\ objs' = objs
          /\ last'.calls = <<>> /\ last'.bcalls = <<>>
          /\ IF parse_hex_data(last'.arg.item.command, TRUE).exc /= NoExc
                \/ parse_hex_data(last'.arg.item.response, FALSE).exc /= NoExc
             THEN last'.exc /= NoExc /\ vm'.breakdown_text = vm.breakdown_text
             ELSE /\ last'.exc = NoExc
                  /\ vm'.breakdown_text =
                         "--- Command ---\n"
                         \o parse_hex_data(last'.arg.item.command, TRUE).text
                         \o "\n\n--- Response ---\n"
                         \o parse_hex_data(last'.arg.item.response, FALSE).text]_vars

\* An entry of the history selected after the view model disconnected.
C28_Witness ==
    /\ last.op = "select_history_item" /\ last.exc = NoExc
    /\ last.arg.item \in Range(vm.command_history)
    /\ ~vm.is_connected
    /\ vm.breakdown_text /= ""

\* =====================================================================
\* Disconnecting (SpecView)
\* =====================================================================

\* C29: when disconnect_device returns, the connected flag is false, the
\* backend holds no device (real: device is None; simulated: is_open false)
\* and, if the real backend held a session, ni845xClose released its handle;
\* a disconnect_device on a disconnected view model changes nothing and makes
\* no driver call.
C29_DisconnectReleases ==
    [][last'.op = "disconnect_device" =>
          /\ last'.exc = NoExc =>
                /\ ~vm'.is_connected
                /\ hh'.device = 0 /\ ~mock'.is_open
                /\ last'.bcalls = <<"close_device">>
                /\ hh.device /= 0 =>
                      /\ Len(last'.calls) = 1
                      /\ last'.calls[1].fn = "ni845xClose"
                      /\ last'.calls[1].h = objs[hh.device].handle
                      /\ last'.calls[1].status = 0
                      /\ ~IsOpen(drv', objs[hh.device].handle, "dev")
          /\ ~vm.is_connected =>
                /\ last'.exc = NoExc /\ last'.calls = <<>>
                /\ vm' = vm /\ hh' = hh /\ mock'.is_open = mock.is_open
                /\ drv' = drv /\ objs' = objs]_vars

\* A disconnect of the real backend that released the session's handle.
C29_Witness ==
    /\ last.op = "disconnect_device" /\ last.exc = NoExc /\ last.obj /= 0
    /\ last.calls /= <<>> /\ last.calls[1].fn = "ni845xClose" /\ last.calls[1].status = 0
    /\ ~vm.is_connected /\ hh.device = 0

\* =====================================================================
\* Released handles (SpecOps)
\* =====================================================================

\* The operations that pass a handle to a driver primitive: the session
\* operations, the transfers and the configuration setters.
HandleOps == {"session_op", "spi_set", "spi_write_read", "i2c_write", "i2c_read"}

\* The guards an operation reads the handle of: the object it is called on
\* and the configuration it is given.
GuardsOf(l) == {l.obj} \cup (IF l.cfg /= 0 THEN {l.cfg} ELSE {})

\* C30: an operation on a session or configuration whose close() has
\* succeeded raises the closed-handle error without calling the driver, and
\* every handle an operation does pass to the driver is open in the driver.
C30_NoCallOnReleasedHandle ==
    last.op \in HandleOps =>
        /\ (\E g \in GuardsOf(last) : objs[g].closed)
              => /\ last.calls = <<>>
                 /\ last.exc = [kind |-> "Ni845xError", code |-> WrapperErrorCode,
                                fn |-> "Handle is closed."]
        /\ last.calls /= <<>>
              => \A g \in GuardsOf(last) :
                     /\ objs[g].handle /= NullHandle
                     /\ IsOpen(drv, objs[g].handle, objs[g].kind)
                     /\ g = last.obj => last.calls[1].h = objs[g].handle

\* A transfer on an open session with a configuration that has been closed.
C30_Witness ==
    /\ last.op = "spi_write_read"
    /\ ~objs[last.obj].closed /\ objs[last.cfg].closed
    /\ last.calls = <<>> /\ last.exc.code = WrapperErrorCode

\* =====================================================================
\* The SPI configuration of HardwareHandler (SpecHandler)
\* =====================================================================

\* The ni845xSpiConfigurationOpen calls of an operation.
ConfigOpens(calls) ==
    {i \in DOMAIN calls : calls[i].fn = "ni845xSpiConfigurationOpen"}

\* C31: the SPI configuration is created lazily and per session: open_device
\* opens none; a spi_transfer of a handler without a configuration opens one,
\* as its first driver call, and a later one reuses it; when close_device
\* returns, the configuration of the closed session is released and the
\* handler's reference to it dropped, so that no transfer reaches the driver
\* with a configuration of an earlier session.
C31_ConfigPerSession ==
    /\ last.op = "open_device" => ConfigOpens(last.calls) = {}
    /\ (last.op = "spi_transfer" /\ last.obj /= 0) =>
          ConfigOpens(last.calls) = (IF last.cfg = 0 THEN {1} ELSE {})
    /\ (last.op = "close_device" /\ last.obj /= 0 /\ last.exc = NoExc) =>
          (hh.spi_config = 0 /\ \A c \in DOMAIN objs : objs[c].kind /= "spi")
    /\ (last.op = "spi_transfer" /\ last.calls /= <<>>) => ~hh.cfg_stale

\* =====================================================================
\* The connected flag and the backend's device (SpecView)
\* =====================================================================

\* The connected flag of the view model tells whether the backend instance it
\* refers to holds an open device.
ConnectedIffOpen ==
    vm.constructed => (vm.is_connected <=> BackendOpen(St0))

\* A send_spi_command step that starts with the connected flag false.
SendWhileDisconnected ==
    last'.op = "send_spi_command" /\ ~vm.is_connected

\* C32: after every sequence of view-model operations the connected flag is
\* true iff the active backend holds an open device; send_spi_command calls
\* the backend's spi_transfer only when the flag was true; no operation of
\* the view model ends with the backend's "No device is currently open"
\* ConnectionError; and a send that starts disconnected calls neither the
\* backend nor the driver and leaves the driver, the backends and the view
\* model as they were.
C32_ConnectedFlagGuardsBackend ==
    /\ [](ConnectedIffOpen /\ last.exc /= ConnectionError)
    /\ [][/\ (last'.op = "send_spi_command" /\ last'.bcalls /= <<>>) =>
                (vm.is_connected /\ last'.bcalls = <<"spi_transfer">>)
          /\ SendWhileDisconnected =>
                /\ last'.bcalls = <<>> /\ last'.calls = <<>>
                /\ last'.exc = NoExc /\ last'.ret = RetNone
                /\ UNCHANGED <<drv, objs, hh, mock, vm>>]_vars

\* A command was sent and recorded, the device was disconnected, and a
\* further send_spi_command returned without calling the backend.
C32_Witness ==
    /\ last.op = "send_spi_command" /\ last.bcalls = <<>>
    /\ vm.command_history /= <<>>
    /\ ~vm.is_connected /\ ~BackendOpen(St0)
    /\ FromHex(last.arg.hex).ok

====
